---- MODULE Spec2Model ----
(***************************************************************************)
(* Model of failover_/event_linux.py: the VRRP failover event handling of  *)
(* a two-node HA storage controller.  Each process is one thread of the    *)
(* middleware that handles one call at a time: an inbound VRRP line        *)
(* (vrrp_fifo_hook -> event), a direct call of failover.events.event, or a *)
(* direct call of one of the two job methods.  A job body runs in its own  *)
(* thread while the caller blocks in wait_sync, so caller and job are one  *)
(* sequential process here; different processes interleave freely.         *)
(***************************************************************************)
EXTENDS Integers, Sequences, FiniteSets, TLC

\* ------------------------------------------------------------------ bounds
MaxCalls == 2
MaxVols == 2

\* one thread per call: thread p handles the p-th call that comes in
Procs == 1..MaxCalls

\* ------------------------------------------------------- program constants
zpool_export_timeout == 4
ExportErrorSleep == 5

critical_services == <<"iscsitarget", "cifs", "nfs", "afp">>

ha_propagate == [ha_propagate |-> FALSE]

\* no options given to service.restart / service.stop
NoOptions == [ha_propagate |-> TRUE]

\* ------------------------------------------------------------- environment
\* interface ids are character sequences, so that Python's `i in ifname`
\* substring test is computed and not assumed
eth0 == <<"e", "t", "h", "0">>
eth1 == <<"e", "t", "h", "1">>
eth10 == <<"e", "t", "h", "1", "0">>

\* rows of interface.query
Interfaces ==
    { [id |-> eth0, failover_critical |-> TRUE, failover_group |-> 1],
      [id |-> eth10, failover_critical |-> TRUE, failover_group |-> 1],
      [id |-> eth1, failover_critical |-> FALSE, failover_group |-> 0] }

Ifnames == {i.id : i \in Interfaces}

\* rows of datastore.query services_services, in database order
ServiceRows ==
    [ crit |-> << [srv_service |-> "nfs", srv_enable |-> TRUE],
                  [srv_service |-> "ssh", srv_enable |-> FALSE],
                  [srv_service |-> "cifs", srv_enable |-> FALSE],
                  [srv_service |-> "iscsitarget", srv_enable |-> TRUE] >>,
      ssh |-> << [srv_service |-> "nfs", srv_enable |-> TRUE],
                 [srv_service |-> "ssh", srv_enable |-> TRUE],
                 [srv_service |-> "iscsitarget", srv_enable |-> TRUE] >> ]

ServiceCfgs == DOMAIN ServiceRows

\* results of failover.config
FailoverCfgs ==
    { [disabled |-> FALSE, master |-> TRUE],
      [disabled |-> TRUE, master |-> FALSE] }

\* exit codes of failover.fenced.start; "None" is run_call's value when the
\* call itself raised
FencedCodes == {"0", "1", "2", "3", "5", "4"}

RoleTokens == {"MASTER", "BACKUP", "FAULT"}

\* ----------------------------------------------------------------- helpers
Range(s) == {s[i] : i \in DOMAIN s}

\* Python: a in b for two strings
IsSubstring(a, b) ==
    \E k \in 0..(Len(b) - Len(a)) : SubSeq(b, k + 1, k + Len(a)) = a

\* filter_list(interfaces, [('failover_critical', '!=', True)]) ids
non_crit_interfaces(interfaces) ==
    {i.id : i \in {j \in interfaces : j.failover_critical # TRUE}}

\* data['groups']: failover_group -> ids of the critical interfaces
groups(interfaces) ==
    [g \in {i.failover_group : i \in {j \in interfaces : j.failover_critical = TRUE}} |->
        {i.id : i \in {j \in interfaces : j.failover_critical = TRUE /\ j.failover_group = g}}]

\* the other members of ifname's failover group
Siblings(ifname, grps) ==
    UNION {grps[g] \ {ifname} : g \in {h \in DOMAIN grps : ifname \in grps[h]}}

\* the outcome of a call: it returned a value or it raised
Returned(v) == [raised |-> "none", value |-> v]
Raised(e) == [raised |-> e, value |-> "None"]

\* the exceptions of this module; all of them derive from Exception
ExceptionSubclasses ==
    {"IgnoreFailoverEvent", "ZpoolExportTimeout", "TypeError", "KeyError",
     "AttributeError", "UnboundLocalError", "UnsupportedOperation", "CallError"}

\* run_call: the outcome of the call, with anything deriving from Exception
\* logged and turned into a returned None
run_call(o) ==
    IF o.raised \in ExceptionSubclasses THEN Returned("None") ELSE o


Call(m, a, o) == [m |-> m, a |-> a, o |-> o]

\* ------------------------------------------------------------------- state
VARIABLES
    pc,                  \* where each process is in its call
    entry,               \* "hook", "event" or "job": how the call came in
    ifname,              \* interface of the call
    event,               \* local `event` of _event / argument of the job
    forcetakeover,       \* local of _event / argument of vrrp_master
    force_fenced,        \* "unbound", "True" or "False"
    fobj,                \* the snapshot of generate_failover_data
    vipstatus,           \* <<masters, backups>> check_failover_group reports
    job,                 \* the job object of the call
    vol,                 \* index of the volume the job's loop is at
    ecalls,              \* collaborator calls made by the hook, event, _event
    jcalls,              \* collaborator calls made by the job body
    outcome,             \* what event() gave its caller
    obs,                 \* observations of the call the claims are about
    failover_successful, \* FailoverService.failover_successful
    watchdog_alert_file, \* TRUE while /data/sentinels/.watchdog-alert exists
    alarm,               \* "off" or "armed": the pending SIGALRM
    sysrq_b,             \* number of 'b' writes that reached /proc/sysrq-trigger
    db                   \* the pools and the services rows of the database

vars == <<pc, entry, ifname, event, forcetakeover, force_fenced, fobj, vipstatus,
          job, vol, ecalls, jcalls, outcome, obs, failover_successful,
          watchdog_alert_file, alarm, sysrq_b, db>>

NoFobj == [volumes_none |-> FALSE, volumes |-> 0, services |-> "crit"]
\* result: what job.set_result was last given; returned: the method's return value
NoJob == [method |-> "none", state |-> "none", error |-> "none", result |-> "None",
          returned |-> "None"]
NoOutcome == [raised |-> "none", value |-> "None"]
NoObs == [ token |-> "none",       \* the event the call came in with
           peer |-> FALSE,         \* the peer was connected and reported MASTER
           online |-> FALSE,       \* a snapshot was built, all its volumes ONLINE
           conflict |-> FALSE,     \* a same-kind job was RUNNING at validation
           ignored |-> "no",       \* the stage that ignored the event
           fenced |-> "none",      \* what failover.fenced.start gave
           failed |-> {},          \* the local list `failed` of vrrp_master
           import_errors |-> {},   \* volumes whose import call raised
           exported |-> 0,         \* export calls that returned normally
           export_errors |-> {},   \* volumes whose export call raised
           timedout |-> FALSE,     \* SIGALRM arrived before the exports ended
           late_alarm |-> FALSE,   \* SIGALRM arrived after the exports ended
           unlinked |-> FALSE,     \* os.unlink(watchdog_alert_file) was reached
           cleanup |-> FALSE,      \* the cleanup fan-out of vrrp_backup ran
           marker_seen |-> TRUE ]  \* the marker existed at every export call

Init ==
    /\ pc = [p \in Procs |-> "idle"]
    /\ entry = [p \in Procs |-> "none"]
    /\ ifname = [p \in Procs |-> eth0]
    /\ event = [p \in Procs |-> "none"]
    /\ forcetakeover = [p \in Procs |-> FALSE]
    /\ force_fenced = [p \in Procs |-> "unbound"]
    /\ fobj = [p \in Procs |-> NoFobj]
    /\ vipstatus = [p \in Procs |-> <<{}, {}>>]
    /\ job = [p \in Procs |-> NoJob]
    /\ vol = [p \in Procs |-> 0]
    /\ ecalls = [p \in Procs |-> <<>>]
    /\ jcalls = [p \in Procs |-> <<>>]
    /\ outcome = [p \in Procs |-> NoOutcome]
    /\ obs = [p \in Procs |-> NoObs]
    /\ failover_successful = FALSE
    /\ watchdog_alert_file = FALSE
    /\ alarm = "off"
    /\ sysrq_b = 0
    /\ db \in [volumes : 0..MaxVols, services : ServiceCfgs]

\* what failover.vip.check_failover_group can report for an interface: every
\* other member of its failover group is either MASTER or BACKUP on this node
GroupStatuses(i) ==
    {<<m, Siblings(i, groups(Interfaces)) \ m>> : m \in SUBSET Siblings(i, groups(Interfaces))}

\* the decorator written without its lock argument
JobLock_Unlocked(m) == "none"

\* @job(lock=...): the lock a job method is declared with
JobLock(m) ==
    IF m = "failover.events.vrrp_master" THEN "vrrp_master"
    ELSE IF m = "failover.events.vrrp_backup" THEN "vrrp_backup"
    ELSE "none"

\* another job holding the lock of p's job is RUNNING
LockHeld(p) ==
    \E q \in Procs \ {p} :
        /\ job[q].state = "RUNNING"
        /\ JobLock(job[p].method) # "none"
        /\ JobLock(job[q].method) = JobLock(job[p].method)

\* Scheduling of the model.  Threads interleave before a call, at a job
\* waiting for a held lock and at the first step of a RUNNING job body.
\* event() up to the dispatch, a job body past its first step, the
\* return from wait_sync and the return of a call are run without steps of
\* other threads in between, and a job whose lock is free starts before
\* another thread steps.  The steps taken that way read and write nothing
\* another thread reads or writes except failover_successful, and every
\* order of those reads and writes is still reached by moving the other
\* thread's step before the first step of the body.
BusyPcs == {"gen", "dispatch", "m_import", "b_export", "b_sleep", "b_cleanup", "job_done", "done"}

Starting(q) == pc[q] = "job_wait" /\ ~LockHeld(q)

Quiet(p) ==
    /\ \A q \in Procs \ {p} : pc[q] \notin BusyPcs
    /\ \/ pc[p] \in BusyPcs
       \/ Starting(p)
       \/ \A q \in Procs \ {p} : ~Starting(q)

\* the next call comes in on the next thread
Free(p) == Quiet(p) /\ pc[p] = "idle" /\ \A q \in 1..(p - 1) : pc[q] # "idle"

\* a fresh call of process p: locals of the previous call are gone
Begin(p, how, i, e, st) ==
    /\ entry' = [entry EXCEPT ![p] = how]
    /\ ifname' = [ifname EXCEPT ![p] = i]
    /\ event' = [event EXCEPT ![p] = e]
    /\ vipstatus' = [vipstatus EXCEPT ![p] = st]
    /\ vol' = [vol EXCEPT ![p] = 0]
    /\ jcalls' = [jcalls EXCEPT ![p] = <<>>]
    /\ outcome' = [outcome EXCEPT ![p] = NoOutcome]
    /\ obs' = [obs EXCEPT ![p] = [NoObs EXCEPT !.token = e]]

\* event(): the except/finally around _event.  `exc` is what _event raised
\* ("none" if it returned `value`)
event_exit(p, exc, value, calls) ==
    LET refresh == exc # "IgnoreFailoverEvent"
        out == IF exc \in {"none", "IgnoreFailoverEvent"}
               THEN Returned(IF exc = "none" THEN value ELSE "None")
               ELSE Raised(exc)
    IN /\ ecalls' = [ecalls EXCEPT ![p] =
                        IF refresh
                        THEN calls \o <<Call("failover.status_refresh", "", "")>>
                        ELSE calls]
       /\ outcome' = [outcome EXCEPT ![p] = out]
       /\ pc' = [pc EXCEPT ![p] = "done"]

\* an intake that passes MASTER lines only
HookTokens_MasterOnly == {"MASTER"}

\* if event not in ('MASTER', 'BACKUP'): return
HookTokens == {"MASTER", "BACKUP"}

\* vrrp_fifo_hook: one line of the VRRP fifo
vrrp_fifo_hook(p) ==
    /\ Free(p)
    /\ \E i \in Ifnames, tok \in RoleTokens :
          IF tok \notin HookTokens
          THEN /\ Begin(p, "hook", i, tok, <<{}, {}>>)
               /\ pc' = [pc EXCEPT ![p] = "done"]
               /\ ecalls' = [ecalls EXCEPT ![p] = <<>>]
          ELSE \E st \in GroupStatuses(i) :
               /\ Begin(p, "hook", i, tok, st)
               /\ pc' = [pc EXCEPT ![p] = "gen"]
               /\ ecalls' = [ecalls EXCEPT ![p] =
                                <<Call("send_event", "failover.vrrp_event", tok)>>]
    /\ forcetakeover' = [forcetakeover EXCEPT ![p] = FALSE]
    /\ force_fenced' = [force_fenced EXCEPT ![p] = "unbound"]
    /\ fobj' = [fobj EXCEPT ![p] = NoFobj]
    /\ job' = [job EXCEPT ![p] = NoJob]
    /\ UNCHANGED <<failover_successful, watchdog_alert_file, alarm, sysrq_b, db>>

\* a direct call of failover.events.event(ifname, 'forcetakeover')
call_event(p) ==
    /\ Free(p)
    /\ \E i \in {eth0, eth1} : Begin(p, "event", i, "forcetakeover", <<{}, {}>>)
    /\ pc' = [pc EXCEPT ![p] = "gen"]
    /\ ecalls' = [ecalls EXCEPT ![p] = <<>>]
    /\ forcetakeover' = [forcetakeover EXCEPT ![p] = TRUE]
    /\ force_fenced' = [force_fenced EXCEPT ![p] = "unbound"]
    /\ fobj' = [fobj EXCEPT ![p] = NoFobj]
    /\ job' = [job EXCEPT ![p] = NoJob]
    /\ UNCHANGED <<failover_successful, watchdog_alert_file, alarm, sysrq_b, db>>

\* the collaborator calls of generate_failover_data
SnapshotCalls ==
    << Call("pool.query", "", ""), Call("datastore.query", "services_services", ""),
       Call("failover.config", "", ""), Call("interface.query", "", ""),
       Call("failover.internal_interfaces", "", "") >>

\* what failover.call_remote('failover.status') gives through run_call
\* ("None": the call failed)
PeerStatuses == {"MASTER", "BACKUP", "None"}

\* the peer check without its comparison
PeerIsMaster_Never(remote_connected, status) == FALSE

\* if remote_connected: if run_call(... 'failover.status') == 'MASTER'
PeerIsMaster(remote_connected, status) == remote_connected /\ status = "MASTER"

\* a readiness loop that always asks for the import
needs_imported_Always(first) == TRUE

\* the readiness loop; first: the first volume of the snapshot whose
\* pool.query status is not ONLINE (0: there is none)
needs_imported(first) == first # 0

\* _event up to the pool-readiness check: the snapshot and the soft checks.
\* cfgfail: failover.config raised; connected, status: what the peer probe
\* and the peer status call give; first: see needs_imported.  The peer status
\* call and the pool.query calls of the readiness loop only read and are not
\* recorded
event_checks(p) ==
    /\ Quiet(p) /\ pc[p] = "gen"
    /\ \E cfgfail \in BOOLEAN, cfg \in FailoverCfgs, vnone \in BOOLEAN,
          connected \in BOOLEAN, status \in PeerStatuses, first \in 0..db.volumes :
          LET n == IF vnone THEN 0 ELSE db.volumes
              svc == db.services
              peer == PeerIsMaster(connected, status)
              needs == needs_imported(first)
              snap == ecalls[p] \o SnapshotCalls
              probe == snap \o <<Call("failover.remote_connected", "", "")>>
              seen == [obs[p] EXCEPT !.peer = connected /\ status = "MASTER",
                                     !.online = ~cfgfail /\ ~vnone /\ first = 0]
              ignore(stage, calls) ==
                  /\ event_exit(p, "IgnoreFailoverEvent", "None", calls)
                  /\ obs' = [obs EXCEPT ![p] = [seen EXCEPT !.ignored = stage]]
                  /\ UNCHANGED <<event, force_fenced, fobj>>
          IN /\ first <= n
             /\ (~connected => status = "None")
             /\ IF cfgfail
                THEN \* failovercfg is None: failovercfg['disabled'] raises
                     /\ event_exit(p, "TypeError", "None", snap)
                     /\ obs' = [obs EXCEPT ![p] = seen]
                     /\ UNCHANGED <<event, force_fenced, fobj>>
                ELSE IF forcetakeover[p]
                THEN /\ fobj' = [fobj EXCEPT ![p] =
                                    [volumes_none |-> vnone, volumes |-> n, services |-> svc]]
                     /\ pc' = [pc EXCEPT ![p] = "dispatch"]
                     /\ ecalls' = [ecalls EXCEPT ![p] = snap]
                     /\ obs' = [obs EXCEPT ![p] = seen]
                     /\ UNCHANGED <<event, force_fenced, outcome>>
                ELSE IF cfg.disabled /\ ~cfg.master
                THEN ignore("disabled", snap)
                ELSE IF \E i \in non_crit_interfaces(Interfaces) : IsSubstring(i, ifname[p])
                THEN ignore("noncrit", snap)
                ELSE IF peer
                THEN ignore("peer", probe)
                ELSE IF vnone
                THEN \* fobj['volumes'] is None: the for loop raises
                     /\ event_exit(p, "TypeError", "None", probe)
                     /\ obs' = [obs EXCEPT ![p] = seen]
                     /\ UNCHANGED <<event, force_fenced, fobj>>
                ELSE IF ~needs
                THEN \* not needs_imported: plain return
                     /\ event_exit(p, "none", "None", probe)
                     /\ obs' = [obs EXCEPT ![p] = seen]
                     /\ UNCHANGED <<event, force_fenced, fobj>>
                ELSE /\ event' = [event EXCEPT ![p] = "MASTER"]
                     /\ force_fenced' = [force_fenced EXCEPT ![p] = "True"]
                     /\ fobj' = [fobj EXCEPT ![p] =
                                    [volumes_none |-> vnone, volumes |-> n, services |-> svc]]
                     /\ pc' = [pc EXCEPT ![p] = "dispatch"]
                     /\ ecalls' = [ecalls EXCEPT ![p] = probe]
                     /\ obs' = [obs EXCEPT ![p] = seen]
                     /\ UNCHANGED outcome
    /\ UNCHANGED <<entry, ifname, forcetakeover, vipstatus, job, vol, jcalls,
                   failover_successful, watchdog_alert_file, alarm, sysrq_b, db>>

\* the filters argument of core.get_jobs in validate: the two tuples stand
\* next to each other without a comma, so the first tuple is called
get_jobs_filters == Raised("TypeError")

\* validate(ifname, event), given the methods of the RUNNING jobs
validate(running, e) ==
    IF get_jobs_filters.raised # "none"
    THEN get_jobs_filters
    ELSE IF "failover.events.vrrp_master" \in running /\ e \in {"MASTER", "forcetakeover"}
    THEN Raised("IgnoreFailoverEvent")
    ELSE IF "failover.events.vrrp_backup" \in running /\ e = "BACKUP"
    THEN Raised("IgnoreFailoverEvent")
    ELSE Returned("None")

\* what core.get_jobs would list as RUNNING
RunningJobs == {job[q].method : q \in {r \in Procs : job[r].state = "RUNNING"}}

\* the incoming event meets a RUNNING transition of its own kind
Conflict(e) ==
    \/ "failover.events.vrrp_master" \in RunningJobs /\ e \in {"MASTER", "forcetakeover"}
    \/ "failover.events.vrrp_backup" \in RunningJobs /\ e = "BACKUP"

NewJob(m) == [NoJob EXCEPT !.method = m, !.state = "WAITING"]

\* _event from the validation on: validate through run_call, then the
\* dispatch of the job; the caller then blocks in wait_sync
event_dispatch(p) ==
    /\ Quiet(p) /\ pc[p] = "dispatch"
    /\ LET v == run_call(validate(RunningJobs, event[p]))
           calls == ecalls[p] \o <<Call("failover.events.validate", "", event[p])>>
       IN IF v.raised # "none"
          THEN /\ event_exit(p, v.raised, "None", calls)
               /\ obs' = [obs EXCEPT ![p].conflict = Conflict(event[p]),
                                     ![p].ignored = "validate"]
               /\ UNCHANGED job
          ELSE IF event[p] \in {"MASTER", "forcetakeover"}
          THEN IF force_fenced[p] = "unbound"
               THEN \* the argument list reads a local that was never assigned
                    /\ event_exit(p, "UnboundLocalError", "None", calls)
                    /\ obs' = [obs EXCEPT ![p].conflict = Conflict(event[p])]
                    /\ UNCHANGED job
               ELSE /\ job' = [job EXCEPT ![p] = NewJob("failover.events.vrrp_master")]
                    /\ pc' = [pc EXCEPT ![p] = "job_wait"]
                    /\ ecalls' = [ecalls EXCEPT ![p] =
                                     calls \o <<Call("failover.events.vrrp_master", "", "")>>]
                    /\ obs' = [obs EXCEPT ![p].conflict = Conflict(event[p])]
                    /\ UNCHANGED outcome
          ELSE /\ job' = [job EXCEPT ![p] = NewJob("failover.events.vrrp_backup")]
               /\ pc' = [pc EXCEPT ![p] = "job_wait"]
               /\ ecalls' = [ecalls EXCEPT ![p] =
                                calls \o <<Call("failover.events.vrrp_backup", "", "")>>]
               /\ obs' = [obs EXCEPT ![p].conflict = Conflict(event[p])]
               /\ UNCHANGED outcome
    /\ UNCHANGED <<entry, ifname, event, forcetakeover, force_fenced, fobj, vipstatus,
                   vol, jcalls, failover_successful, watchdog_alert_file, alarm,
                   sysrq_b, db>>

\* a direct call of one of the job methods through the middleware, without
\* the force flags (event() dispatches vrrp_master with force_fenced set)
call_job(p) ==
    /\ Free(p)
    /\ \E m \in {"failover.events.vrrp_master", "failover.events.vrrp_backup"},
          vnone \in BOOLEAN :
          LET n == IF vnone THEN 0 ELSE db.volumes
              svc == db.services
          IN
          /\ Begin(p, "job", eth0,
                   IF m = "failover.events.vrrp_master" THEN "MASTER" ELSE "BACKUP",
                   <<{}, {}>>)
          /\ force_fenced' = [force_fenced EXCEPT ![p] = "False"]
          /\ fobj' = [fobj EXCEPT ![p] =
                         [volumes_none |-> vnone, volumes |-> n, services |-> svc]]
          /\ job' = [job EXCEPT ![p] = NewJob(m)]
    /\ pc' = [pc EXCEPT ![p] = "job_wait"]
    /\ ecalls' = [ecalls EXCEPT ![p] = <<>>]
    /\ forcetakeover' = [forcetakeover EXCEPT ![p] = FALSE]
    /\ UNCHANGED <<failover_successful, watchdog_alert_file, alarm, sysrq_b, db>>

\* a test for the four exit codes the log messages name
Truthy_ListedCodes(v) == v \in {"1", "2", "3", "5"}

\* Python truth value of what run_call gave for failover.fenced.start
Truthy(v) == v \notin {"None", "0"}

PyBool(b) == IF b THEN "True" ELSE "False"

\* the job body ended: it returned `ret`, or raised `err`
JobEnd(p, err, res, ret) ==
    /\ job' = [job EXCEPT ![p].state = IF err = "none" THEN "SUCCESS" ELSE "FAILED",
                          ![p].error = err,
                          ![p].result = res,
                          ![p].returned = ret]
    /\ pc' = [pc EXCEPT ![p] = IF entry[p] = "job" THEN "done" ELSE "job_done"]

\* the job system starts a WAITING job once its lock is free
job_start(p) ==
    /\ Quiet(p) /\ pc[p] = "job_wait"
    /\ ~LockHeld(p)
    /\ job' = [job EXCEPT ![p].state = "RUNNING"]
    /\ pc' = [pc EXCEPT ![p] =
                 IF job[p].method = "failover.events.vrrp_master" THEN "m_fence" ELSE "b_check"]
    /\ UNCHANGED <<entry, ifname, event, forcetakeover, force_fenced, fobj, vipstatus,
                   vol, ecalls, jcalls, outcome, obs, failover_successful,
                   watchdog_alert_file, alarm, sysrq_b, db>>

\* fenced started without the stop before it
FenceCalls_StartOnly(forced) ==
    << Call("failover.fenced.start", "", IF forced THEN "force" ELSE "") >>

\* the two fencing calls of vrrp_master, in the forced and in the normal branch
FenceCalls(forced) ==
    << Call("failover.fenced.stop", "", ""),
       Call("failover.fenced.start", "", IF forced THEN "force" ELSE "") >>

\* vrrp_master up to the fenced_error test
vrrp_master_fence(p) ==
    /\ Quiet(p) /\ pc[p] = "m_fence"
    /\ \E code \in FencedCodes, raises \in BOOLEAN, st \in GroupStatuses(ifname[p]) :
          LET forced == forcetakeover[p] \/ force_fenced[p] = "True"
              fenced_error == run_call(IF raises THEN Raised("CallError")
                                       ELSE Returned(code)).value
              check == <<Call("failover.vip.check_failover_group", "", "")>>
              fence == FenceCalls(forced)
          IN /\ (entry[p] # "job" => st = vipstatus[p])
             /\ vipstatus' = [vipstatus EXCEPT ![p] = st]
             /\ IF ~forced /\ st[2] # {}
                THEN \* other interfaces of the group are still BACKUP
                     /\ (code = "0" /\ ~raises)
                     /\ jcalls' = [jcalls EXCEPT ![p] = check]
                     /\ obs' = [obs EXCEPT ![p].ignored = "group"]
                     /\ JobEnd(p, "IgnoreFailoverEvent", "IGNORED", "None")
                ELSE /\ (raises => code = "0")
                     /\ jcalls' = [jcalls EXCEPT ![p] = (IF forced THEN <<>> ELSE check) \o fence]
                     /\ obs' = [obs EXCEPT ![p].fenced = fenced_error]
                     /\ IF Truthy(fenced_error)
                        THEN JobEnd(p, "none", "None", PyBool(failover_successful))
                        ELSE /\ pc' = [pc EXCEPT ![p] = "m_import"]
                             /\ UNCHANGED job
    /\ UNCHANGED <<entry, ifname, event, forcetakeover, force_fenced, fobj,
                   vol, ecalls, outcome, failover_successful, watchdog_alert_file,
                   alarm, sysrq_b, db>>

\* what the failover.unlock_zfs_datasets call of the import loop can do:
\* give a job that ends well, give a job that ends with an error or with
\* datasets left locked (both are logged and nothing else), or fail
UnlockOutcomes == {"ok", "job_error", "raises"}

\* unlock_job = self.run_call(...); unlock_job.wait_sync(): the attribute
\* access on what run_call gave
unlock_wait_sync(unlock_job) ==
    IF unlock_job.raised = "none" /\ unlock_job.value = "None"
    THEN Raised("AttributeError")
    ELSE unlock_job

\* one round of the import loop of vrrp_master: the import of the next volume
\* and, unless the except branch took `continue`, the unlock of its datasets
vrrp_master_import(p) ==
    /\ Quiet(p) /\ pc[p] = "m_import"
    /\ ~fobj[p].volumes_none
    /\ vol[p] < fobj[p].volumes
    /\ \E raises \in BOOLEAN, unlock \in UnlockOutcomes :
          LET v == vol[p] + 1
              imp == run_call(IF raises THEN Raised("CallError") ELSE Returned("None"))
              excepted == imp.raised # "none"
              unlock_job == run_call(IF unlock = "raises" THEN Raised("CallError")
                                     ELSE Returned("Job"))
              waited == IF excepted THEN Returned("None") ELSE unlock_wait_sync(unlock_job)
          IN /\ (excepted => unlock = "ok")
             /\ jcalls' = [jcalls EXCEPT ![p] =
                    @ \o <<Call("zfs.pool.import_pool", ToString(v), "")>>
                      \o (IF excepted THEN <<>>
                          ELSE <<Call("failover.unlock_zfs_datasets", ToString(v), "")>>)]
             /\ obs' = [obs EXCEPT
                    ![p].failed = IF excepted THEN @ \cup {v} ELSE @,
                    ![p].import_errors = IF raises THEN @ \cup {v} ELSE @]
             /\ vol' = [vol EXCEPT ![p] = v]
             /\ IF waited.raised # "none"
                THEN JobEnd(p, waited.raised, "None", "None")
                ELSE UNCHANGED <<pc, job>>
    /\ UNCHANGED <<entry, ifname, event, forcetakeover, force_fenced, fobj, vipstatus,
                   ecalls, outcome, failover_successful, watchdog_alert_file,
                   alarm, sysrq_b, db>>

Restart(name, opt) ==
    Call("service.restart", name, IF opt.ha_propagate THEN "" ELSE "ha_propagate=False")

Stop(name, opt) ==
    Call("service.stop", name, IF opt.ha_propagate THEN "" ELSE "ha_propagate=False")

\* a critical pass that walks the rows of the snapshot in database order
CriticalRestarts_RowOrder(services) ==
    LET is_crit(r) == r.srv_service \in Range(critical_services) /\ r.srv_enable
        sel == SelectSeq(services, is_crit)
    IN [k \in DOMAIN sel |-> Restart(sel[k].srv_service, ha_propagate)]

\* the critical pass: for i in critical_services: for j in services
CriticalRestarts(services) ==
    LET wanted(i) == \E k \in DOMAIN services :
                        services[k].srv_service = i /\ services[k].srv_enable
        sel == SelectSeq(critical_services, wanted)
    IN [k \in DOMAIN sel |-> Restart(sel[k], ha_propagate)]

\* the pass over the remaining services: the log line of a row that is
\* enabled and not critical reads the row's key 'service'
NonCriticalRestarts(services) ==
    LET is_other(r) == r.srv_service \notin Range(critical_services) /\ r.srv_enable
        sel == SelectSeq(services, is_other)
    IN IF \E k \in DOMAIN sel : "service" \notin DOMAIN sel[k]
       THEN [raised |-> "KeyError", calls |-> <<>>]
       ELSE [raised |-> "none",
             calls |-> [k \in DOMAIN sel |-> Restart(sel[k].srv_service, ha_propagate)]]

\* the post-import steps of vrrp_master up to the critical services
FanoutCritical(services) ==
    << Call("failover.status_refresh", "", ""), Call("etc.generate", "rc", ""),
       Call("etc.generate", "system_dataset", ""), Call("etc.generate", "ssl", ""),
       Restart("http", NoOptions) >> \o CriticalRestarts(services)

FanoutSync ==
    << Call("etc.generate", "cron", ""), Call("disk.sync_all", "", ""),
       Call("enclosure.sync_zpool", "", ""), Restart("collectd", ha_propagate),
       Restart("syslogd", ha_propagate) >>

\* kmip.config: the key-management integration is not enabled on this system
KmipEnabled == FALSE

FanoutAlerts(kmip) ==
    << Call("alert.block_failover_alerts", "", ""), Call("alert.initialize", "", ""),
       Call("kmip.config", "", "") >>
    \o (IF kmip THEN <<Call("kmip.initialize_keys", "", "")>> ELSE <<>>)

\* vrrp_master after the import loop: the outcome policy and the fan-out
vrrp_master_finish(p) ==
    /\ Quiet(p) /\ pc[p] = "m_import"
    /\ fobj[p].volumes_none \/ vol[p] = fobj[p].volumes
    /\ \E kmip \in {KmipEnabled} :
          LET services == ServiceRows[fobj[p].services]
              failed == obs[p].failed
              res == IF failed # {} THEN "ERROR" ELSE "None"
              other == NonCriticalRestarts(services)
          IN IF fobj[p].volumes_none
             THEN \* for vol in None
                  /\ ~kmip
                  /\ JobEnd(p, "TypeError", "None", "None")
                  /\ UNCHANGED <<jcalls, failover_successful>>
             ELSE IF Cardinality(failed) = fobj[p].volumes
             THEN /\ ~kmip
                  /\ JobEnd(p, "none", "ERROR", PyBool(failover_successful))
                  /\ UNCHANGED <<jcalls, failover_successful>>
             ELSE IF other.raised # "none"
             THEN /\ ~kmip
                  /\ jcalls' = [jcalls EXCEPT ![p] =
                                   @ \o FanoutCritical(services) \o FanoutSync]
                  /\ JobEnd(p, other.raised, res, "None")
                  /\ UNCHANGED failover_successful
             ELSE /\ jcalls' = [jcalls EXCEPT ![p] =
                                   @ \o FanoutCritical(services) \o FanoutSync
                                     \o other.calls \o FanoutAlerts(kmip)]
                  /\ failover_successful' = TRUE
                  /\ JobEnd(p, "none", res, "True")
    /\ UNCHANGED <<entry, ifname, event, forcetakeover, force_fenced, fobj, vipstatus,
                   vol, ecalls, outcome, obs, watchdog_alert_file, alarm, sysrq_b, db>>

\* _event after wait_sync: the job reached a terminal state
event_wait_sync(p) ==
    /\ Quiet(p) /\ pc[p] = "job_done"
    /\ IF job[p].error # "none"
       THEN event_exit(p, "none", PyBool(failover_successful), ecalls[p])
       ELSE event_exit(p, "none", "None", ecalls[p])
    /\ UNCHANGED <<entry, ifname, event, forcetakeover, force_fenced, fobj, vipstatus,
                   job, vol, jcalls, obs, failover_successful, watchdog_alert_file,
                   alarm, sysrq_b, db>>

\* open(path) without a mode opens for reading; only these modes can write
DefaultOpenMode == "r"
Writable(mode) == mode \in {"w", "a", "r+", "w+", "a+"}

\* vrrp_backup up to signal.alarm: the group check, fenced.stop, the restart of
\* keepalived, the watchdog marker (open(..., 'w') creates the file; the write
\* of an int raises inside contextlib.suppress) and the arming of the alarm
vrrp_backup_check(p) ==
    /\ Quiet(p) /\ pc[p] = "b_check"
    /\ \E st \in GroupStatuses(ifname[p]) :
       LET check == <<Call("failover.vip.check_failover_group", "", "")>>
       IN
       /\ (entry[p] # "job" => st = vipstatus[p])
       /\ vipstatus' = [vipstatus EXCEPT ![p] = st]
       /\ IF st[1] # {}
             THEN \* other interfaces of the group are still MASTER
                  /\ jcalls' = [jcalls EXCEPT ![p] = check]
                  /\ obs' = [obs EXCEPT ![p].ignored = "group"]
                  /\ JobEnd(p, "IgnoreFailoverEvent", "IGNORED", "None")
                  /\ UNCHANGED <<watchdog_alert_file, alarm>>
             ELSE /\ jcalls' = [jcalls EXCEPT ![p] =
                                   check \o << Call("failover.fenced.stop", "", ""),
                                               Restart("keepalived", NoOptions) >>]
                  /\ watchdog_alert_file' = Writable("w")
                  /\ alarm' = "armed"
                  /\ pc' = [pc EXCEPT ![p] = "b_export"]
                  /\ UNCHANGED <<job, obs>>
    /\ UNCHANGED <<entry, ifname, event, forcetakeover, force_fenced, fobj,
                   vol, ecalls, outcome, failover_successful, sysrq_b, db>>

\* one round of the export loop of vrrp_backup, or its end
vrrp_backup_export(p) ==
    /\ Quiet(p) /\ pc[p] = "b_export"
    /\ IF fobj[p].volumes_none
       THEN \* for vol in None raises inside the inner try: sleep
            /\ pc' = [pc EXCEPT ![p] = "b_sleep"]
            /\ UNCHANGED <<vol, jcalls, obs>>
       ELSE IF vol[p] < fobj[p].volumes
       THEN \E raises \in BOOLEAN :
               LET v == vol[p] + 1
                   ex == run_call(IF raises THEN Raised("CallError") ELSE Returned("None"))
               IN /\ jcalls' = [jcalls EXCEPT ![p] =
                                   @ \o <<Call("zfs.pool.export", ToString(v), "force")>>]
                  /\ obs' = [obs EXCEPT
                         ![p].exported = IF raises THEN @ ELSE @ + 1,
                         ![p].export_errors = IF raises THEN @ \cup {v} ELSE @,
                         ![p].marker_seen = @ /\ watchdog_alert_file]
                  /\ IF ex.raised # "none"
                     THEN /\ pc' = [pc EXCEPT ![p] = "b_sleep"]
                          /\ UNCHANGED vol
                     ELSE /\ vol' = [vol EXCEPT ![p] = v]
                          /\ UNCHANGED pc
       ELSE /\ pc' = [pc EXCEPT ![p] = "b_cleanup"]
            /\ UNCHANGED <<vol, jcalls, obs>>
    /\ UNCHANGED <<entry, ifname, event, forcetakeover, force_fenced, fobj, vipstatus,
                   job, ecalls, outcome, failover_successful, watchdog_alert_file,
                   alarm, sysrq_b, db>>

\* time.sleep(5) of the inner except branch returns; the alarm, 4 seconds
\* after it was armed, interrupts a sleep that is longer
vrrp_backup_sleep(p) ==
    /\ Quiet(p) /\ pc[p] = "b_sleep"
    /\ alarm = "off" \/ ExportErrorSleep <= zpool_export_timeout
    /\ pc' = [pc EXCEPT ![p] = "b_cleanup"]
    /\ UNCHANGED <<entry, ifname, event, forcetakeover, force_fenced, fobj, vipstatus,
                   job, vol, ecalls, jcalls, outcome, obs, failover_successful,
                   watchdog_alert_file, alarm, sysrq_b, db>>

\* SIGALRM: _zpool_export_sig_alarm raises ZpoolExportTimeout in the job that
\* armed the alarm, wherever that job is.  inside: the signal arrives while the
\* job is inside a call made through run_call
zpool_export_sig_alarm(p) ==
    /\ Quiet(p) /\ alarm = "armed"
    /\ pc[p] \in {"b_export", "b_sleep", "b_cleanup"}
    /\ alarm' = "off"
    /\ \E inside \in BOOLEAN :
          LET more == ~fobj[p].volumes_none /\ vol[p] < fobj[p].volumes
              sig == IF inside THEN run_call(Raised("ZpoolExportTimeout"))
                     ELSE Raised("ZpoolExportTimeout")
          IN IF pc[p] = "b_export"
             THEN /\ (inside => more)
                  /\ obs' = [obs EXCEPT ![p].timedout = @ \/ more,
                                        ![p].late_alarm = @ \/ ~more,
                                        ![p].marker_seen = @ /\ (more => watchdog_alert_file)]
                  /\ IF sig.raised = "none"
                     THEN \* the export call in progress is abandoned, the loop goes on
                          /\ jcalls' = [jcalls EXCEPT ![p] =
                                 @ \o <<Call("zfs.pool.export", ToString(vol[p] + 1), "force")>>]
                          /\ vol' = [vol EXCEPT ![p] = @ + 1]
                          /\ UNCHANGED <<pc, job, sysrq_b>>
                     ELSE \* except Exception of the inner try: sleep
                          /\ pc' = [pc EXCEPT ![p] = "b_sleep"]
                          /\ UNCHANGED <<vol, jcalls, job, sysrq_b>>
             ELSE IF pc[p] = "b_sleep"
             THEN \* except ZpoolExportTimeout of the outer try: the two
                  \* /proc files are opened without a mode and written
                  /\ ~inside
                  /\ obs' = [obs EXCEPT ![p].timedout = TRUE]
                  /\ IF Writable(DefaultOpenMode)
                     THEN /\ sysrq_b' = sysrq_b + 1
                          /\ pc' = [pc EXCEPT ![p] = "rebooted"]
                          /\ UNCHANGED job
                     ELSE /\ JobEnd(p, "UnsupportedOperation", "None", "None")
                          /\ UNCHANGED sysrq_b
                  /\ UNCHANGED <<vol, jcalls>>
             ELSE \* after the try blocks: nothing but run_call catches it
                  /\ obs' = [obs EXCEPT ![p].late_alarm = TRUE]
                  /\ IF sig.raised = "none"
                     THEN UNCHANGED <<pc, job>>
                     ELSE JobEnd(p, sig.raised, "None", "None")
                  /\ UNCHANGED <<vol, jcalls, sysrq_b>>
    /\ UNCHANGED <<entry, ifname, event, forcetakeover, force_fenced, fobj, vipstatus,
                   ecalls, outcome, failover_successful, watchdog_alert_file, db>>

\* SIGALRM after the job that armed it has ended
stray_sig_alarm ==
    /\ alarm = "armed"
    /\ \A p \in Procs : pc[p] \notin {"b_export", "b_sleep", "b_cleanup"}
    /\ alarm' = "off"
    /\ UNCHANGED <<pc, entry, ifname, event, forcetakeover, force_fenced, fobj,
                   vipstatus, job, vol, ecalls, jcalls, outcome, obs,
                   failover_successful, watchdog_alert_file, sysrq_b, db>>

\* the SSH pass of vrrp_backup
SshRestarts(services) ==
    LET is_ssh(r) == r.srv_service = "ssh" /\ r.srv_enable
        sel == SelectSeq(services, is_ssh)
    IN [k \in DOMAIN sel |-> Restart("ssh", ha_propagate)]

\* vrrp_backup after the try blocks: the marker removal and the cleanup fan-out
vrrp_backup_cleanup(p) ==
    /\ Quiet(p) /\ pc[p] = "b_cleanup"
    /\ watchdog_alert_file' = FALSE
    /\ obs' = [obs EXCEPT ![p].unlinked = TRUE, ![p].cleanup = TRUE]
    /\ jcalls' = [jcalls EXCEPT ![p] =
          @ \o << Call("failover.status_refresh", "", ""), Restart("syslogd", ha_propagate),
                  Call("etc.generate", "cron", ""), Stop("smartd", ha_propagate),
                  Stop("collectd", ha_propagate) >>
            \o SshRestarts(ServiceRows[fobj[p].services])
            \o <<Call("failover.call_remote", "failover.sync_keys_to_remote_node", "")>>]
    /\ failover_successful' = TRUE
    /\ JobEnd(p, "none", "None", "True")
    /\ UNCHANGED <<entry, ifname, event, forcetakeover, force_fenced, fobj, vipstatus,
                   vol, ecalls, outcome, alarm, sysrq_b, db>>

\* the caller has the outcome of the call; the thread and its locals are gone
call_return(p) ==
    /\ pc[p] = "done"
    /\ pc' = [pc EXCEPT ![p] = "returned"]
    /\ entry' = [entry EXCEPT ![p] = "none"]
    /\ ifname' = [ifname EXCEPT ![p] = eth0]
    /\ event' = [event EXCEPT ![p] = "none"]
    /\ forcetakeover' = [forcetakeover EXCEPT ![p] = FALSE]
    /\ force_fenced' = [force_fenced EXCEPT ![p] = "unbound"]
    /\ fobj' = [fobj EXCEPT ![p] = NoFobj]
    /\ vipstatus' = [vipstatus EXCEPT ![p] = <<{}, {}>>]
    /\ job' = [job EXCEPT ![p] = NoJob]
    /\ vol' = [vol EXCEPT ![p] = 0]
    /\ ecalls' = [ecalls EXCEPT ![p] = <<>>]
    /\ jcalls' = [jcalls EXCEPT ![p] = <<>>]
    /\ outcome' = [outcome EXCEPT ![p] = NoOutcome]
    /\ obs' = [obs EXCEPT ![p] = NoObs]
    /\ UNCHANGED <<failover_successful, watchdog_alert_file, alarm, sysrq_b, db>>

Next ==
    \E p \in Procs :
        \/ call_return(p)
        \/ vrrp_fifo_hook(p)
        \/ call_event(p)
        \/ call_job(p)
        \/ event_checks(p)
        \/ event_dispatch(p)
        \/ job_start(p)
        \/ vrrp_master_fence(p)
        \/ vrrp_master_import(p)
        \/ vrrp_master_finish(p)
        \/ event_wait_sync(p)
        \/ vrrp_backup_check(p)
        \/ vrrp_backup_export(p)
        \/ vrrp_backup_sleep(p)
        \/ zpool_export_sig_alarm(p)
        \/ vrrp_backup_cleanup(p)
        \/ stray_sig_alarm

Spec == Init /\ [][Next]_vars

\* ------------------------------------------------------------------ claims
Called(calls, ms) == \E i \in DOMAIN calls : calls[i].m \in ms

Ended(p) == job[p].state \in {"SUCCESS", "FAILED"}

IsMaster(p) == job[p].method = "failover.events.vrrp_master"
IsBackup(p) == job[p].method = "failover.events.vrrp_backup"

\* the call came in as a MASTER or BACKUP line of the fifo
FromHook(p) == entry[p] = "hook" /\ ecalls[p] # <<>>

\* the role token of the fifo line (`event` itself is overwritten by _event)
Token(p) == ecalls[p][1].o

Refreshed(p) == Called(ecalls[p], {"failover.status_refresh"})

FencingCalls == {"failover.fenced.stop", "failover.fenced.start"}
StorageCalls == {"zfs.pool.import_pool", "zfs.pool.export"}
ServiceCalls == {"service.restart", "service.stop"}
PostImportCalls ==
    {"failover.status_refresh", "etc.generate", "service.restart", "disk.sync_all",
     "enclosure.sync_zpool", "alert.block_failover_alerts", "alert.initialize",
     "kmip.config"}

\* C1: an event handled by event() that meets, at its validation, a RUNNING
\* transition of its own kind gets no job dispatched
C1_ValidatorRejects ==
    \A p \in Procs :
        (entry[p] \in {"hook", "event"} /\ obs[p].conflict) => job[p] = NoJob

\* C2: two bodies of the same transition kind never execute at the same time
C2_OneBodyPerKind ==
    \A p, q \in Procs :
        (p # q /\ job[p].state = "RUNNING" /\ job[q].state = "RUNNING")
            => job[p].method # job[q].method

\* a second transition of the same kind is waiting for the one that runs
C2_Witness ==
    \E p, q \in Procs :
        /\ job[p].state = "RUNNING" /\ job[q].state = "WAITING"
        /\ job[p].method = job[q].method
        /\ IsMaster(p) /\ pc[p] = "m_fence"

\* C3: after a non-OK code of fenced.start the MASTER transition makes no
\* import and no call of the post-import fan-out
C3_FenceFailureStops ==
    \A p \in Procs :
        (IsMaster(p) /\ obs[p].fenced \in FencedCodes \ {"0"})
            => ~Called(jcalls[p], StorageCalls \cup PostImportCalls
                                  \cup {"failover.unlock_zfs_datasets"})

\* a MASTER transition has ended after fenced.start returned code 3
C3_Witness ==
    \E p \in Procs :
        /\ IsMaster(p) /\ Ended(p) /\ obs[p].fenced = "3"
        /\ fobj[p].volumes > 0
        /\ Called(jcalls[p], {"failover.fenced.start"})

\* C4: a MASTER transition that ended after a non-OK code of fenced.start
\* does not give its caller the success value
C4_FenceFailureIsFailure ==
    \A p \in Procs :
        (IsMaster(p) /\ Ended(p) /\ obs[p].fenced \in FencedCodes \ {"0"})
            => job[p].returned # "True"

\* C5: with N > 0 volumes, if all imports fail the result is ERROR and no
\* service is restarted; if some but not all fail the result is ERROR and the
\* whole post-import fan-out runs
C5_ImportFailurePolicy ==
    \A p \in Procs :
        (IsMaster(p) /\ Ended(p) /\ fobj[p].volumes > 0 /\ vol[p] = fobj[p].volumes)
            => LET k == Cardinality(obs[p].import_errors)
               IN /\ (k = fobj[p].volumes =>
                         job[p].result = "ERROR" /\ ~Called(jcalls[p], {"service.restart"}))
                  /\ ((0 < k /\ k < fobj[p].volumes) =>
                         /\ job[p].result = "ERROR"
                         /\ \A m \in PostImportCalls : Called(jcalls[p], {m}))

\* C6: once the export deadline has elapsed before the exports ended, the
\* reboot trigger has been written exactly once and neither the marker
\* removal nor the cleanup fan-out is reached
C6_DeadlineReboots ==
    \A p \in Procs :
        (IsBackup(p) /\ obs[p].timedout)
            => (sysrq_b = 1 /\ ~obs[p].unlinked /\ ~obs[p].cleanup)

\* C7: the watchdog marker exists at every export call, and it is removed
\* only if the deadline did not elapse before the exports ended
C7_MarkerRemovedOnlyIfExported ==
    \A p \in Procs :
        IsBackup(p) =>
            /\ obs[p].marker_seen
            /\ (obs[p].unlinked => ~obs[p].timedout)

\* the failover group of the event's interface still has a member in the
\* other role: a BACKUP member for a MASTER event, a MASTER one for BACKUP
Stale(p) ==
    /\ FromHook(p)
    /\ \/ Token(p) = "MASTER" /\ vipstatus[p][2] # {}
       \/ Token(p) = "BACKUP" /\ vipstatus[p][1] # {}

\* C8: an event whose failover group still has a member in the other role
\* causes no fencing call and no pool import or export
C8_StaleEventIgnored ==
    \A p \in Procs :
        Stale(p) => ~Called(jcalls[p], FencingCalls \cup StorageCalls)

\* C9: an event on an interface flagged non-critical ends ignored: no job, no
\* collaborator call of a transition, no status refresh
C9_NonCriticalIgnored ==
    \A p \in Procs :
        (FromHook(p) /\ pc[p] = "done" /\ ifname[p] \in non_crit_interfaces(Interfaces))
            => /\ job[p] = NoJob /\ jcalls[p] = <<>>
               /\ ~Refreshed(p)
               /\ outcome[p] = Returned("None")

\* C10: event() refreshes the failover status on its exit exactly if the
\* event was not ignored at one of the stages: HA disabled, non-critical
\* interface, peer MASTER, validator conflict, stale failover group
C10_RefreshIffNotIgnored ==
    \A p \in Procs :
        (entry[p] \in {"hook", "event"} /\ pc[p] = "done" /\ ecalls[p] # <<>>)
            => (Refreshed(p) <=>
                    ~(\/ obs[p].ignored # "no"
                      \/ obs[p].conflict
                      \/ Stale(p) /\ job[p] # NoJob))

\* the methods _event dispatches a transition job with
TransitionMethods == {"failover.events.vrrp_master", "failover.events.vrrp_backup"}

\* C11: a forcetakeover event that got past the snapshot and met no RUNNING
\* MASTER transition runs vrrp_master with forced fencing (stop, then start
\* with force) and, fencing being OK, imports every volume
C11_ForceTakeoverRuns ==
    \A p \in Procs :
        (/\ entry[p] = "event" /\ pc[p] = "done"
         /\ Called(ecalls[p], {"failover.events.validate"})
         /\ ~obs[p].conflict)
            => /\ IsMaster(p)
               /\ \E i \in DOMAIN jcalls[p] :
                     jcalls[p][i] = Call("failover.fenced.start", "", "force")
               /\ (obs[p].fenced = "0" => vol[p] = fobj[p].volumes)

\* C12: a BACKUP line of the fifo that leads to a transition job leads to
\* vrrp_backup
C12_BackupDispatched ==
    \A p \in Procs :
        (entry[p] = "hook" /\ obs[p].token = "BACKUP" /\ job[p] # NoJob) => IsBackup(p)

C14_FlagIsLastOutcome ==
    [][\A p \in Procs :
          (job[p].state = "RUNNING" /\ job'[p].state \in {"SUCCESS", "FAILED"})
              => LET error ==
                         /\ IsMaster(p)
                         /\ \/ obs'[p].fenced \in FencedCodes \ {"0"}
                            \/ /\ fobj[p].volumes > 0
                               /\ Cardinality(obs'[p].import_errors) = fobj[p].volumes
                 IN /\ error => failover_successful' = FALSE
                    /\ (~error /\ job'[p].returned = "True") => failover_successful' = TRUE]_vars

\* C15: every failover.fenced.start call of a job is directly preceded by a
\* failover.fenced.stop call of the same job
C15_StopBeforeStart ==
    \A p \in Procs : \A i \in DOMAIN jcalls[p] :
        jcalls[p][i].m = "failover.fenced.start"
            => (i > 1 /\ jcalls[p][i - 1].m = "failover.fenced.stop")

\* the normal path: the group check, then stop, then start without force
C15_Witness ==
    \E p \in Procs :
        /\ IsMaster(p) /\ Len(jcalls[p]) >= 3
        /\ jcalls[p][1].m = "failover.vip.check_failover_group"
        /\ jcalls[p][3] = Call("failover.fenced.start", "", "")

\* C16: every service.restart and service.stop of a transition carries
\* ha_propagate = False
C16_NoPropagation ==
    \A p \in Procs : \A i \in DOMAIN jcalls[p] :
        jcalls[p][i].m \in ServiceCalls => jcalls[p][i].o = "ha_propagate=False"

\* C17: event() never raises to its caller
C17_EventNeverRaises ==
    \A p \in Procs : entry[p] \in {"hook", "event"} => outcome[p].raised = "none"

\* C18: a non-forced event that finds the peer connected and MASTER makes no
\* fencing call, no import or export, and dispatches no job
C18_PeerMasterIgnored ==
    \A p \in Procs :
        (entry[p] = "hook" /\ ~forcetakeover[p] /\ obs[p].peer)
            => /\ job[p] = NoJob /\ jcalls[p] = <<>>
               /\ ~Called(ecalls[p], TransitionMethods \cup FencingCalls \cup StorageCalls)

\* the peer check ignored an event on a critical interface whose volumes
\* were not all ONLINE
C18_Witness ==
    \E p \in Procs :
        /\ entry[p] = "hook" /\ pc[p] = "done" /\ obs[p].peer
        /\ obs[p].ignored = "peer" /\ ~obs[p].online /\ ifname[p] = eth0
        /\ ~Refreshed(p)

\* C19: for a MASTER or BACKUP line the intake's first call is the
\* failover.vrrp_event notification with that token, whatever event() does
\* afterwards; for any other token it publishes nothing and calls nothing
C19_IntakePublishes ==
    \A p \in Procs :
        entry[p] = "hook"
            => IF obs[p].token \in {"MASTER", "BACKUP"}
               THEN /\ ecalls[p] # <<>>
                    /\ ecalls[p][1] = Call("send_event", "failover.vrrp_event", obs[p].token)
                    /\ \A i \in DOMAIN ecalls[p] : i > 1 => ecalls[p][i].m # "send_event"
               ELSE ecalls[p] = <<>> /\ job[p] = NoJob /\ jcalls[p] = <<>>

\* a BACKUP line was published although event() then ignored it
C19_Witness ==
    \E p \in Procs :
        /\ entry[p] = "hook" /\ pc[p] = "done" /\ obs[p].token = "BACKUP"
        /\ obs[p].ignored = "noncrit"
        /\ Len(ecalls[p]) > 1

\* C20: a BACKUP transition in which the export of a volume failed reaches
\* neither the marker removal nor the cleanup fan-out
C20_ExportErrorStalls ==
    \A p \in Procs :
        (IsBackup(p) /\ obs[p].export_errors # {})
            => (~obs[p].unlinked /\ ~obs[p].cleanup)

\* the import call of volume v was made by the job of p
ImportAttempted(p, v) ==
    \E i \in DOMAIN jcalls[p] :
        jcalls[p][i] = Call("zfs.pool.import_pool", ToString(v), "")

\* C21: a MASTER transition that began its import loop and has ended made an
\* import attempt for every volume of its snapshot, and did not end with an
\* exception that came out of the loop
C21_EveryVolumeAttempted ==
    \A p \in Procs :
        (IsMaster(p) /\ Ended(p) /\ ImportAttempted(p, 1))
            => /\ \A v \in 1..fobj[p].volumes : ImportAttempted(p, v)
               /\ job[p].error # "AttributeError"

\* the names of the services the job of p restarted, in the order of the calls
RestartedNames(p) ==
    LET is_restart(c) == c.m = "service.restart"
        restarts == SelectSeq(jcalls[p], is_restart)
    IN [k \in DOMAIN restarts |-> restarts[k].a]

\* the critical services in the order the claim fixes
FixedOrder == <<"iscsitarget", "cifs", "nfs", "afp">>

\* the services restarted by the steps of the fan-out that follow the critical
\* pass: everything restarted but the critical ones and the service that
\* serves the regenerated configuration
IsNonCritical(name) == name \notin Range(FixedOrder) \cup {"http"}

ExportedInTime(p) ==
    /\ IsBackup(p) /\ ~fobj[p].volumes_none
    /\ fobj[p].volumes > 0
    /\ obs[p].exported = fobj[p].volumes
    /\ ~obs[p].timedout
    /\ pc[p] = "b_cleanup" \/ Ended(p)

\* C23: after a BACKUP transition has exported all its volumes in time the
\* deadline signal does not arrive any more, the reboot trigger is not
\* written, and the transition, once ended, has run its cleanup and succeeded
C23_TimerInertAfterExport ==
    \A p \in Procs :
        ExportedInTime(p)
            => /\ ~obs[p].late_alarm
               /\ pc[p] # "rebooted"
               /\ Ended(p) => (job[p].state = "SUCCESS" /\ obs[p].cleanup)

\* C24: a MASTER transition that made an import call had the OK code from
\* failover.fenced.start
C24_ImportOnlyAfterFenceOK ==
    \A p \in Procs :
        (IsMaster(p) /\ Called(jcalls[p], {"zfs.pool.import_pool"}))
            => obs[p].fenced = "0"

\* C25: an event ignored by the non-critical-interface check came in on an
\* interface of the non-critical set
C25_OnlyNonCriticalIgnored ==
    \A p \in Procs :
        obs[p].ignored = "noncrit" => ifname[p] \in non_crit_interfaces(Interfaces)

====
